---- MODULE Spec2Model ----
(***************************************************************************)
(* The Evocon extract-and-load scripts (evocon.py and the earlier          *)
(* rest_api_pipeline.py) as a state machine: one scheduled job that is     *)
(* invoked repeatedly with one command line against one secrets store, one *)
(* dlt configuration, one upstream API and one warehouse.                  *)
(***************************************************************************)
EXTENDS Integers, Sequences, FiniteSets, Bags, TLC

VARIABLES
    script,             \* which script the job runs: "evocon" | "rest_api_pipeline"
    argv,               \* the command line: [start_date, end_date, full_refresh, environment]
    conf_env,           \* dlt.config 'runtime.environment': <<>> (unset) or <<"dev">>, <<"prod">>
    secrets,            \* the secrets store: [api_key, secret], each <<>> (absent) or <<value>>
    clock,              \* the wall clock, in ticks (TicksPerDay ticks make a calendar day)
    pc,                 \* position of the running invocation
    start_date,         \* load_evocon_data's start_date: <<>> (None) or <<day>>
    end_date,           \* load_evocon_data's end_date
    dataset_name,       \* the pipeline's dataset_name, "" before the pipeline exists
    write_disposition,  \* the write_disposition passed to pipeline.run, <<>> when none is passed
    catalogue,          \* the resources the source yields, in order
    log,                \* what logger.info wrote in this invocation
    http,               \* the HTTP requests issued to the Evocon API in this invocation
    staged,             \* the records extracted in this invocation, per resource
    applied,            \* the disposition each resource was loaded with in this invocation
    tables,             \* the warehouse: a bag of rows per <<dataset, table>>
    printed,            \* how many load summaries this invocation printed
    error,              \* the exception that ended this invocation, "" when none
    trace,              \* the steps this invocation completed, in order
    runs,               \* invocations finished so far
    prev                \* <<>> or <<the finished previous invocation>>

vars == <<script, argv, conf_env, secrets, clock, pc, start_date, end_date,
          dataset_name, write_disposition, catalogue, log, http, staged,
          applied, tables, printed, error, trace, runs, prev>>

(***************************************************************************)
(* Bounds of the model.                                                    *)
(***************************************************************************)
MaxRuns == 2
MaxDay == 3
ClockSpan == 3
TicksPerDay == 2
MaxCredLen == 11
RowsPerDay == 2

Min(a, b) == IF a < b THEN a ELSE b
Max(a, b) == IF a > b THEN a ELSE b

(***************************************************************************)
(* Dates.  A "%Y-%m-%d" string is the number of its calendar day; the      *)
(* clock counts ticks, and strftime keeps only the day of a datetime.      *)
(***************************************************************************)
Strftime(t) == t \div TicksPerDay
Timedelta(days) == days * TicksPerDay

EvoconLookbackDays == 2
RestLookbackDays == 1

\* the clock's range: it starts late enough for every default window to be in Days
FirstTick == Timedelta(EvoconLookbackDays)
LastTick == FirstTick + ClockSpan

(***************************************************************************)
(* Credentials are character strings; Cred(n) is a credential of length n. *)
(***************************************************************************)
Alphabet == <<"a", "b", "c", "d", "e", "f", "g", "h", "i", "j", "k", "l", "m", "n">>
Cred(n) == [i \in 1..n |-> Alphabet[i]]

PreviewLen == 5
\* Python's s[:n] and s[-n:]
SliceTo(s, n) == SubSeq(s, 1, Min(n, Len(s)))
SliceLast(s, n) == SubSeq(s, Max(1, Len(s) - n + 1), Len(s))
\* f"{s[:5]}...{s[-5:]}"
Preview(s) == SliceTo(s, PreviewLen) \o <<".", ".", ".">> \o SliceLast(s, PreviewLen)

(***************************************************************************)
(* The resource catalogues.  primary_key and write_disposition are <<>>    *)
(* where the entry declares none.                                          *)
(***************************************************************************)
Resource(name, path, primary_key) ==
    [name |-> name, path |-> path, primary_key |-> primary_key, write_disposition |-> <<>>]

\* the catalogue with "quantity" declared without its primary key
EvoconResourcesQuantityUnkeyed ==
    << Resource("oee", "oee_json", <<"shift_id">>),
       Resource("losses", "losses_json", <<"id">>),
       Resource("scrap", "scrap_json",
                <<"shift_id", "date", "station", "product_code", "scrap_reason_name">>),
       Resource("downtime", "downtime_json", <<"stop_instance_id">>),
       Resource("checklists", "checklists_json",
                <<"shift_id", "date", "station", "name", "itemname">>),
       Resource("quantity", "quantity_json", <<>>) >>

\* evocon.py: base_config["resources"] and the resources evocon_source yields
EvoconResources ==
    << Resource("oee", "oee_json", <<"shift_id">>),
       Resource("losses", "losses_json", <<"id">>),
       Resource("scrap", "scrap_json",
                <<"shift_id", "date", "station", "product_code", "scrap_reason_name">>),
       Resource("downtime", "downtime_json", <<"stop_instance_id">>),
       Resource("checklists", "checklists_json",
                <<"shift_id", "date", "station", "name", "itemname">>),
       Resource("quantity", "quantity_json", <<"id">>) >>

\* rest_api_pipeline.py: config["resource_defaults"]["write_disposition"]
RestResourceDefaults(r) == [r EXCEPT !.write_disposition = <<"merge">>]

\* the catalogue with the primary keys evocon.py declares for the same endpoints
RestResourcesKeyed ==
    << RestResourceDefaults(Resource("oee", "oee_json", <<"shift_id">>)),
       RestResourceDefaults(Resource("losses", "losses_json", <<"id">>)),
       RestResourceDefaults(Resource("client_metrics", "clientmetrics_json", <<>>)) >>

\* rest_api_pipeline.py: config["resources"], with resource_defaults applied
RestResources ==
    << RestResourceDefaults(Resource("oee", "oee_json", <<>>)),
       RestResourceDefaults(Resource("losses", "losses_json", <<>>)),
       RestResourceDefaults(Resource("client_metrics", "clientmetrics_json", <<>>)) >>

Names(cat) == {cat[i].name : i \in 1..Len(cat)}
TableNames == Names(EvoconResources) \cup Names(RestResources)
Datasets == {"evocon", "evocon_staging", "evocon_data"}
TableIds == Datasets \X TableNames

(***************************************************************************)
(* The upstream API: the records each endpoint holds, and its answer to a  *)
(* request for a date window.  Within one endpoint every primary key of    *)
(* the catalogue identifies one record.                                    *)
(***************************************************************************)
Days == 0..MaxDay

Row(path, d, k) ==
    [id                |-> d * RowsPerDay + k,
     shift_id          |-> IF path = "oee_json" THEN d * RowsPerDay + k ELSE d,
     date              |-> d,
     station           |-> k,
     product_code      |-> "P",
     scrap_reason_name |-> "R",
     stop_instance_id  |-> d * RowsPerDay + k,
     name              |-> "N",
     itemname          |-> k]

Upstream(path) ==
    IF path = "clientmetrics_json" THEN {}
    ELSE {Row(path, d, k) : d \in Days, k \in 1..RowsPerDay}

Response(path, startTime, endTime) ==
    {r \in Upstream(path) : startTime <= r.date /\ r.date <= endTime}

Request(res, s, e, key, secret) ==
    [path |-> res.path, startTime |-> s, endTime |-> e, username |-> key, password |-> secret]

(***************************************************************************)
(* The warehouse load of one resource.                                     *)
(***************************************************************************)
KeyOf(row, pk) == [i \in 1..Len(pk) |-> row[pk[i]]]
KeysOf(rows, pk) == {KeyOf(r, pk) : r \in rows}

\* the ways of keeping one staged record per primary key
RECURSIVE DedupsOf(_, _, _)
DedupsOf(keys, rows, pk) ==
    IF keys = {} THEN {{}}
    ELSE LET k == CHOOSE x \in keys : TRUE
         IN  {S \cup {r} : S \in DedupsOf(keys \ {k}, rows, pk),
                           r \in {x \in rows : KeyOf(x, pk) = k}}

Dedups(rows, pk) == DedupsOf(KeysOf(rows, pk), rows, pk)

Without(table, keys, pk) ==
    LET keep == {r \in DOMAIN table : KeyOf(r, pk) \notin keys}
    IN  [r \in keep |-> table[r]]

Upsert(table, pick, pk) == Without(table, KeysOf(pick, pk), pk) (+) SetToBag(pick)

\* the disposition a resource is loaded with: pipeline.run's argument, else its own
Disposition(res, run_wd) ==
    IF run_wd # <<>> THEN run_wd[1]
    ELSE IF res.write_disposition # <<>> THEN res.write_disposition[1]
    ELSE "append"

LoadTable(table, rows, pick, wd, pk) ==
    IF wd = "replace" THEN SetToBag(rows)
    ELSE IF wd = "merge" /\ pk # <<>> THEN Upsert(table, pick, pk)
    ELSE table (+) SetToBag(rows)

(***************************************************************************)
(* Configuration read by the scripts.                                      *)
(***************************************************************************)
\* evocon.py: ENVIRONMENT = dlt.config.get('runtime.environment') or 'prod'
Environment == IF conf_env # <<>> /\ conf_env[1] # "" THEN conf_env[1] ELSE "prod"

\* evocon.py: f"evocon{'_staging' if ENVIRONMENT == 'dev' else ''}"
DatasetName == IF Environment = "dev" THEN "evocon_staging" ELSE "evocon"

\* --full-refresh ignored
WriteDispositionAlwaysMerge(full_refresh) == "merge"

\* evocon.py __main__: "replace" if args.full_refresh else "merge"
WriteDisposition(full_refresh) == IF full_refresh THEN "replace" ELSE "merge"

\* Python truth of a secret: absent (None) and "" are both false
Falsy(secret) == secret = <<>> \/ secret[1] = <<>>

\* an exception of pipeline.run swallowed
AfterRunSwallowed(ok) == "print"

\* where the invocation goes when pipeline.run returns (ok) or raises
AfterRun(ok) == IF ok THEN "print" ELSE "failed"

NoRun ==
    /\ start_date = <<>> /\ end_date = <<>> /\ dataset_name = ""
    /\ write_disposition = <<>> /\ catalogue = <<>> /\ log = <<>> /\ http = <<>>
    /\ staged = <<>> /\ applied = <<>> /\ printed = 0 /\ error = "" /\ trace = <<>>

InitWith(Scripts, Args, ConfEnvs, Secrets) ==
    /\ script \in Scripts
    /\ argv \in Args
    /\ conf_env \in ConfEnvs
    /\ secrets \in Secrets
    /\ clock = FirstTick
    /\ pc = "cli"
    /\ NoRun
    /\ tables = [t \in TableIds |-> EmptyBag]
    /\ runs = 0
    /\ prev = <<>>

(***************************************************************************)
(* evocon.py                                                               *)
(***************************************************************************)
\* __main__: the parsed arguments are handed to load_evocon_data
Main ==
    /\ pc = "cli" /\ script = "evocon"
    /\ start_date' = argv.start_date
    /\ end_date' = argv.end_date
    /\ write_disposition' = <<WriteDisposition(argv.full_refresh)>>
    /\ pc' = "load_evocon_data"
    /\ UNCHANGED <<script, argv, conf_env, secrets, clock, dataset_name, catalogue, log,
                   http, staged, applied, tables, printed, error, trace, runs, prev>>

\* load_evocon_data up to dlt.pipeline(...): each missing bound reads the clock
\* for itself, so the clock may move on between the two reads
LoadEvoconData ==
    /\ pc = "load_evocon_data"
    /\ \E now2 \in clock..(clock + 1) :
        /\ now2 <= LastTick
        /\ now2 # clock => start_date = <<>> /\ end_date = <<>>
        /\ start_date' = IF start_date = <<>>
                         THEN <<Strftime(clock - Timedelta(EvoconLookbackDays))>>
                         ELSE start_date
        /\ end_date' = IF end_date = <<>> THEN <<Strftime(now2)>> ELSE end_date
        /\ clock' = now2
    /\ dataset_name' = DatasetName
    /\ trace' = Append(trace, "dates")
    /\ pc' = "evocon_source"
    /\ UNCHANGED <<script, argv, conf_env, secrets, write_disposition, catalogue, log,
                   http, staged, applied, tables, printed, error, runs, prev>>

\* evocon_source(start_date, end_date)
EvoconSource ==
    /\ pc = "evocon_source" /\ script = "evocon"
    /\ \/ /\ secrets.api_key = <<>> \/ secrets.secret = <<>>
          /\ error' = "ConfigFieldMissingException"
          /\ pc' = "failed"
          /\ UNCHANGED <<log, catalogue, trace>>
       \/ /\ secrets.api_key # <<>> /\ secrets.secret # <<>>
          /\ Falsy(secrets.api_key) \/ Falsy(secrets.secret)
          /\ error' = "ValueError"
          /\ pc' = "failed"
          /\ UNCHANGED <<log, catalogue, trace>>
       \/ /\ ~Falsy(secrets.api_key) /\ ~Falsy(secrets.secret)
          /\ log' = <<Preview(secrets.api_key[1]), Preview(secrets.secret[1])>>
          /\ catalogue' = EvoconResources
          /\ trace' = Append(trace, "catalogue")
          /\ pc' = "extract"
          /\ UNCHANGED error
    /\ UNCHANGED <<script, argv, conf_env, secrets, clock, start_date, end_date,
                   dataset_name, write_disposition, http, staged, applied, tables,
                   printed, runs, prev>>

(***************************************************************************)
(* rest_api_pipeline.py                                                    *)
(***************************************************************************)
\* __main__ and load_evocon_data up to dlt.pipeline(...)
RestLoadEvoconData ==
    /\ pc = "cli" /\ script = "rest_api_pipeline"
    /\ dataset_name' = "evocon_data"
    /\ pc' = "evocon_source"
    /\ UNCHANGED <<script, argv, conf_env, secrets, clock, start_date, end_date,
                   write_disposition, catalogue, log, http, staged, applied, tables,
                   printed, error, trace, runs, prev>>

\* evocon_source(), get_date_range() included: end_date reads the clock first,
\* start_date reads it again
RestEvoconSource ==
    /\ pc = "evocon_source" /\ script = "rest_api_pipeline"
    /\ \E now2 \in clock..(clock + 1) :
        /\ now2 <= LastTick
        /\ end_date' = <<Strftime(clock)>>
        /\ start_date' = <<Strftime(now2 - Timedelta(RestLookbackDays))>>
        /\ clock' = now2
    /\ \/ /\ catalogue' = RestResources
          /\ trace' = trace \o <<"dates", "catalogue">>
          /\ pc' = "extract"
          /\ UNCHANGED error
       \/ \* rest_api_source may refuse an auth entry whose username or password is None
          /\ secrets.api_key = <<>> \/ secrets.secret = <<>>
          /\ error' = "ConfigFieldMissingException"
          /\ trace' = Append(trace, "dates")
          /\ pc' = "failed"
          /\ UNCHANGED catalogue
    /\ UNCHANGED <<script, argv, conf_env, secrets, dataset_name, write_disposition,
                   log, http, staged, applied, tables, printed, runs, prev>>

(***************************************************************************)
(* pipeline.run(source, write_disposition): one extraction pass, one HTTP  *)
(* request per resource of the catalogue, then one load pass, one table    *)
(* per resource.  A failure of either raises out of pipeline.run.          *)
(***************************************************************************)
ExtractStep ==
    /\ pc = "extract"
    /\ LET i == Len(http) + 1
           res == catalogue[i]
           req == Request(res, start_date[1], end_date[1], secrets.api_key, secrets.secret)
       IN  /\ http' = Append(http, req)
           /\ \/ /\ staged' = Append(staged, Response(req.path, req.startTime, req.endTime))
                 /\ IF i = Len(catalogue)
                    THEN pc' = "load" /\ trace' = Append(trace, "extract")
                    ELSE UNCHANGED <<pc, trace>>
                 /\ UNCHANGED error
              \/ /\ error' = "ExtractError"
                 /\ pc' = AfterRun(FALSE)
                 /\ UNCHANGED <<staged, trace>>
    /\ UNCHANGED <<script, argv, conf_env, secrets, clock, start_date, end_date,
                   dataset_name, write_disposition, catalogue, log, applied, tables,
                   printed, runs, prev>>

LoadStep ==
    /\ pc = "load"
    /\ LET j == Len(applied) + 1
           res == catalogue[j]
           wd == Disposition(res, write_disposition)
       IN  \/ /\ \E pick \in Dedups(staged[j], res.primary_key) :
                    tables' = [tables EXCEPT ![<<dataset_name, res.name>>] =
                                  LoadTable(@, staged[j], pick, wd, res.primary_key)]
              /\ applied' = Append(applied, [name |-> res.name, write_disposition |-> wd])
              /\ IF j = Len(catalogue)
                 THEN pc' = AfterRun(TRUE) /\ trace' = Append(trace, "load")
                 ELSE UNCHANGED <<pc, trace>>
              /\ UNCHANGED error
           \/ /\ error' = "LoadError"
              /\ pc' = AfterRun(FALSE)
              /\ UNCHANGED <<tables, applied, trace>>
    /\ UNCHANGED <<script, argv, conf_env, secrets, clock, start_date, end_date,
                   dataset_name, write_disposition, catalogue, log, http, staged,
                   printed, runs, prev>>

\* print(load_info)
PrintLoadInfo ==
    /\ pc = "print"
    /\ printed' = printed + 1
    /\ trace' = Append(trace, "summary")
    /\ pc' = "done"
    /\ UNCHANGED <<script, argv, conf_env, secrets, clock, start_date, end_date,
                   dataset_name, write_disposition, catalogue, log, http, staged,
                   applied, tables, error, runs, prev>>

(***************************************************************************)
(* The job's schedule: the process exits, time passes, the next invocation *)
(* starts with nothing but the warehouse carried over.                     *)
(***************************************************************************)
Exit ==
    /\ pc \in {"done", "failed"}
    /\ runs + 1 < MaxRuns
    /\ prev' = <<[ok |-> pc = "done", start_date |-> start_date, end_date |-> end_date,
                  dataset_name |-> dataset_name, write_disposition |-> write_disposition,
                  tables |-> tables]>>
    /\ runs' = runs + 1
    /\ pc' = "cli"
    /\ start_date' = <<>> /\ end_date' = <<>> /\ dataset_name' = ""
    /\ write_disposition' = <<>> /\ catalogue' = <<>> /\ log' = <<>> /\ http' = <<>>
    /\ staged' = <<>> /\ applied' = <<>> /\ printed' = 0 /\ error' = "" /\ trace' = <<>>
    /\ UNCHANGED <<script, argv, conf_env, secrets, clock, tables>>

Tick ==
    /\ pc = "cli"
    /\ clock < LastTick
    /\ clock' = clock + 1
    /\ UNCHANGED <<script, argv, conf_env, secrets, pc, start_date, end_date,
                   dataset_name, write_disposition, catalogue, log, http, staged,
                   applied, tables, printed, error, trace, runs, prev>>

Next ==
    \/ Main \/ LoadEvoconData \/ EvoconSource
    \/ RestLoadEvoconData \/ RestEvoconSource
    \/ ExtractStep \/ LoadStep \/ PrintLoadInfo
    \/ Exit \/ Tick

(***************************************************************************)
(* The inputs.                                                             *)
(***************************************************************************)
ArgDates == {<<>>, <<0>>, <<MaxDay>>}
\* rest_api_pipeline.py parses no command line and reads no runtime.environment
NoArgs == [start_date |-> <<>>, end_date |-> <<>>, full_refresh |-> FALSE, environment |-> "dev"]
DateArgs == {[NoArgs EXCEPT !.start_date = s, !.end_date = e, !.full_refresh = f] :
                s \in ArgDates, e \in ArgDates, f \in BOOLEAN}
EnvArgs == {[NoArgs EXCEPT !.environment = v] : v \in {"dev", "prod"}}
ConfEnvs == {<<>>, <<"dev">>, <<"prod">>}

CredLens == {0, PreviewLen, 2 * PreviewLen, MaxCredLen}
SecretValues == {<<>>} \cup {<<Cred(n)>> : n \in CredLens}
GoodSecrets == [api_key |-> <<Cred(MaxCredLen)>>, secret |-> <<Cred(MaxCredLen)>>]
Secrets == {[GoodSecrets EXCEPT !.api_key = v] : v \in SecretValues}
               \cup {[GoodSecrets EXCEPT !.secret = v] : v \in SecretValues}

\* every command line with good secrets, every environment with good secrets,
\* every secrets store with the default command line; the same for both scripts
Init ==
    \/ InitWith({"evocon"}, DateArgs, {<<>>}, {GoodSecrets})
    \/ InitWith({"evocon"}, EnvArgs, ConfEnvs, {GoodSecrets})
    \/ InitWith({"evocon"}, {NoArgs}, {<<>>}, Secrets)
    \/ InitWith({"rest_api_pipeline"}, {NoArgs}, {<<>>}, Secrets)
Spec == Init /\ [][Next]_vars

(***************************************************************************)
(* Properties.                                                             *)
(***************************************************************************)
MissingCredential == Falsy(secrets.api_key) \/ Falsy(secrets.secret)
Window == <<start_date, end_date>>
SameWindowAsPrev ==
    /\ prev # <<>> /\ prev[1].ok
    /\ <<prev[1].start_date, prev[1].end_date>> = Window
    /\ prev[1].dataset_name = dataset_name
    /\ prev[1].write_disposition = write_disposition
Steps == <<"dates", "catalogue", "extract", "load", "summary">>
IsPrefix(s, t) == Len(s) <= Len(t) /\ SubSeq(t, 1, Len(s)) = s

\* C1: with either credential empty or absent, the invocation issues no HTTP
\* request, loads nothing and does not finish, in both scripts.
C1_MissingCredentialHaltsBeforeHttp ==
    MissingCredential => http = <<>> /\ applied = <<>> /\ pc # "done"

\* C2: every resource an evocon.py invocation loads is loaded with "replace" when
\* --full-refresh was given and with "merge" otherwise, and a finished invocation
\* has loaded all six resources.
C2_FullRefreshSetsDisposition ==
    script = "evocon" =>
        /\ \A i \in 1..Len(applied) :
              applied[i].write_disposition = (IF argv.full_refresh THEN "replace" ELSE "merge")
        /\ pc = "done" =>
              {applied[i].name : i \in 1..Len(applied)}
                  = {"oee", "losses", "scrap", "downtime", "checklists", "quantity"}

C2_Witness ==
    /\ script = "evocon" /\ argv.full_refresh /\ pc = "done"
    /\ Len(applied) = 6
    /\ \A i \in 1..Len(applied) : applied[i].write_disposition = "replace"

\* C3: the environment an evocon.py invocation is given selects its dataset: dev
\* writes evocon_staging, prod writes evocon, and a dev invocation never writes to
\* a table of evocon.
C3_EnvironmentSelectsDataset ==
    script = "evocon" /\ dataset_name # "" =>
        /\ dataset_name = (IF argv.environment = "dev" THEN "evocon_staging" ELSE "evocon")
        /\ argv.environment = "dev" =>
              \A i \in 1..Len(applied) : tables[<<"evocon", applied[i].name>>] = EmptyBag

\* C4: with no explicit dates, the window is [T - 2 days, T] in evocon.py and
\* [T - 1 day, T] in rest_api_pipeline.py for one date T, whatever the clock does
\* between the two reads.
C4_DefaultWindowSpan ==
    argv.start_date = <<>> /\ argv.end_date = <<>> /\ start_date # <<>> /\ end_date # <<>> =>
        end_date[1] - start_date[1] =
            (IF script = "evocon" THEN EvoconLookbackDays ELSE RestLookbackDays)

\* C5: an evocon.py invocation that merges the window the previous invocation
\* merged leaves every table as that invocation left it, with one row per
\* primary-key value.
C5_MergeIdempotent ==
    script = "evocon" /\ pc = "done" /\ write_disposition = <<"merge">> /\ SameWindowAsPrev =>
        \A i \in 1..Len(catalogue) :
            LET t == tables[<<dataset_name, catalogue[i].name>>]
            IN  /\ t = prev[1].tables[<<dataset_name, catalogue[i].name>>]
                /\ \A r \in DOMAIN t : t[r] = 1
                /\ Cardinality(KeysOf(DOMAIN t, catalogue[i].primary_key))
                       = Cardinality(DOMAIN t)

C5_Witness ==
    /\ script = "evocon" /\ pc = "done" /\ write_disposition = <<"merge">> /\ SameWindowAsPrev
    /\ Len(catalogue) = 6
    /\ \A i \in 1..Len(catalogue) :
          BagCardinality(tables[<<dataset_name, catalogue[i].name>>]) >= 2

\* C6: an invocation whose start date is later than its end date issues no HTTP
\* request, loads nothing and does not finish.
C6_ReversedWindowRejected ==
    start_date # <<>> /\ end_date # <<>> /\ start_date[1] > end_date[1] =>
        http = <<>> /\ applied = <<>> /\ pc # "done"

\* what a reader of a logged preview can put together: the characters before the
\* dots followed by an end of the characters after them
Reconstructions(line) ==
    LET dots == {i \in 1..Len(line) : line[i] = "."}
        first == CHOOSE i \in dots : \A j \in dots : i <= j
        last == CHOOSE i \in dots : \A j \in dots : j <= i
        head == SubSeq(line, 1, first - 1)
        tail == SubSeq(line, last + 1, Len(line))
    IN  {head \o SubSeq(tail, k + 1, Len(tail)) : k \in 0..Len(tail)}

\* C7: no logged preview gives away the whole credential, whatever its length.
C7_PreviewHidesCredential ==
    log # <<>> =>
        /\ secrets.api_key[1] \notin Reconstructions(log[1])
        /\ secrets.secret[1] \notin Reconstructions(log[2])

\* C8: rest_api_pipeline.py's resources have no primary key and are appended: an
\* invocation over the window of the previous one adds every record of the window
\* once more, so that two invocations from an empty table leave each record twice.
C8_UnkeyedAppends ==
    script = "rest_api_pipeline" /\ pc = "done" /\ SameWindowAsPrev =>
        \A i \in 1..Len(catalogue) :
            LET t == tables[<<dataset_name, catalogue[i].name>>]
                before == prev[1].tables[<<dataset_name, catalogue[i].name>>]
                rows == Response(catalogue[i].path, start_date[1], end_date[1])
            IN  /\ catalogue[i].primary_key = <<>>
                /\ \A r \in rows : CopiesIn(r, t) = CopiesIn(r, before) + 1
                /\ BagCardinality(t) = BagCardinality(before) + Cardinality(rows)
                /\ runs = 1 => /\ BagCardinality(t) = 2 * Cardinality(rows)
                               /\ \A r \in rows : CopiesIn(r, t) = 2

C8_Witness ==
    /\ script = "rest_api_pipeline" /\ pc = "done" /\ SameWindowAsPrev /\ runs = 1
    /\ \E r \in DOMAIN tables[<<dataset_name, "oee">>] :
          CopiesIn(r, tables[<<dataset_name, "oee">>]) = 2

\* C9: no invocation of either script requests clientmetrics_json or loads a
\* client_metrics table.
C9_ClientMetricsDisabled ==
    /\ \A i \in 1..Len(http) : http[i].path # "clientmetrics_json"
    /\ \A i \in 1..Len(applied) : applied[i].name # "client_metrics"

\* C10: the steps of an invocation happen in the order dates, catalogue,
\* extraction, load, summary; no table is loaded before every request was made;
\* the summary is printed at most once and only after the whole load; a failure
\* ends the invocation with its error and without a summary.
C10_StepOrder ==
    /\ IsPrefix(trace, Steps)
    /\ applied # <<>> => Len(http) = Len(catalogue) /\ Len(staged) = Len(catalogue)
    /\ pc = "extract" => applied = <<>>
    /\ printed <= 1
    /\ printed = 1 => trace = Steps /\ Len(applied) = Len(catalogue) /\ pc = "done"
    /\ error # "" => printed = 0 /\ pc = "failed"
    /\ pc = "failed" => error # ""

C10_Witness ==
    pc = "done" /\ script = "evocon" /\ trace = Steps /\ printed = 1 /\ error = ""

====
